---- MODULE Spec2Model ----
(***************************************************************************)
(* The client-side transfer scheduler of the chunked uploader              *)
(* (angular-uploader/src/app/services/upload.service.ts): one root-scoped  *)
(* UploadService, its three BehaviorSubjects, and the RxJS pipeline that   *)
(* uploadFileMultipart builds for every file it is given.                  *)
(*                                                                         *)
(* Sizes are counted in KiB (units of 1024 bytes), so that the planner's   *)
(* 10 GB threshold and the percent computation stay inside TLC's 32-bit    *)
(* integers.  Speed and ETA (wall-clock quantities) are left out of the    *)
(* published progress.                                                     *)
(***************************************************************************)
EXTENDS Integers, FiniteSets, Sequences, TLC

\* ------------------------------------------------------------------ bounds
\* Number of transfers (uploadFileMultipart calls) one behaviour may start.
MaxTransfers == 2
\* Largest number of chunks of a transfer (combinations with more are not drawn).
MaxChunks == 3
\* Number of requests the server may fail in one behaviour of Spec and of
\* UiLiveSpec: enough for a chunk of the 5-retry classes to use up its retries.
MaxFailures == 6
\* The same for BatchSpec: enough for a chunk of the 3-retry class.
MaxBatchFailures == 4
\* pause() calls allowed in the fair specification LiveSpec.
MaxPauses == 1
\* Files the component's list may hold.
MaxFiles == 2
\* Longest object (in bytes) sent to the server.
MaxObjectLen == 3
\* Largest object size and chunk size whose chunk boundaries are computed.
MaxSplitSize == 8

\* ------------------------------------------------------- program constants
MB == 1024
GB == 1024 * MB

Transfers == 1..MaxTransfers

\* File sizes offered to uploadFileMultipart: a small file (concurrency 6,
\* 3 retries) and files of the planner's two lowest concurrency classes
\* (concurrency 2 and 1, 5 retries).
FileSizes == {5, 3 * GB, 11 * GB}
\* init.recommendedChunkSize as answered by the server; 0 stands for "absent".
\* Combinations that give more than MaxChunks chunks are not drawn.
RecommendedSizes == {0, 2, GB, 3 * GB, 4 * GB}
\* The transfers that run side by side in BatchSpec: <<file size, recommended
\* chunk size>>, each on a fresh session (no chunk received yet).
BatchInits == {<<5, 0>>, <<11 * GB, 6 * GB>>}

Min(a, b) == IF a < b THEN a ELSE b

\* Faulty variant: the quotient rounded down.
CeilTruncated(a, b) == a \div b

\* Math.ceil(a / b) for a >= 0, b > 0.
Ceil(a, b) == (a + b - 1) \div b

\* Faulty variant: the thresholds belong to the class above them.
getOptimalConfigExclusive(fileSize) ==
    IF fileSize < 50 * MB THEN [chunkSize |-> 5 * MB, concurrency |-> 6, retries |-> 3]
    ELSE IF fileSize < 500 * MB THEN [chunkSize |-> 10 * MB, concurrency |-> 4, retries |-> 3]
    ELSE IF fileSize < 2 * GB THEN [chunkSize |-> 25 * MB, concurrency |-> 3, retries |-> 4]
    ELSE IF fileSize < 10 * GB THEN [chunkSize |-> 50 * MB, concurrency |-> 2, retries |-> 5]
    ELSE [chunkSize |-> 100 * MB, concurrency |-> 1, retries |-> 5]

\* Faulty variant: 5 MB chunks for every size, with the table's concurrency.
getOptimalConfigSmallChunks(fileSize) ==
    IF fileSize <= 50 * MB THEN [chunkSize |-> 5 * MB, concurrency |-> 6, retries |-> 3]
    ELSE IF fileSize <= 500 * MB THEN [chunkSize |-> 5 * MB, concurrency |-> 4, retries |-> 3]
    ELSE IF fileSize <= 2 * GB THEN [chunkSize |-> 5 * MB, concurrency |-> 3, retries |-> 4]
    ELSE IF fileSize <= 10 * GB THEN [chunkSize |-> 5 * MB, concurrency |-> 2, retries |-> 5]
    ELSE [chunkSize |-> 5 * MB, concurrency |-> 1, retries |-> 5]

\* Faulty variant: the medium class gets more concurrency than the small one.
getOptimalConfigWideMedium(fileSize) ==
    IF fileSize <= 50 * MB THEN [chunkSize |-> 5 * MB, concurrency |-> 6, retries |-> 3]
    ELSE IF fileSize <= 500 * MB THEN [chunkSize |-> 10 * MB, concurrency |-> 8, retries |-> 3]
    ELSE IF fileSize <= 2 * GB THEN [chunkSize |-> 25 * MB, concurrency |-> 3, retries |-> 4]
    ELSE IF fileSize <= 10 * GB THEN [chunkSize |-> 50 * MB, concurrency |-> 2, retries |-> 5]
    ELSE [chunkSize |-> 100 * MB, concurrency |-> 1, retries |-> 5]

\* getOptimalConfig(fileSize)
getOptimalConfig(fileSize) ==
    IF fileSize <= 50 * MB THEN [chunkSize |-> 5 * MB, concurrency |-> 6, retries |-> 3]
    ELSE IF fileSize <= 500 * MB THEN [chunkSize |-> 10 * MB, concurrency |-> 4, retries |-> 3]
    ELSE IF fileSize <= 2 * GB THEN [chunkSize |-> 25 * MB, concurrency |-> 3, retries |-> 4]
    ELSE IF fileSize <= 10 * GB THEN [chunkSize |-> 50 * MB, concurrency |-> 2, retries |-> 5]
    ELSE [chunkSize |-> 100 * MB, concurrency |-> 1, retries |-> 5]

\* ------------------------------------------------------------------- state
VARIABLES
    isPaused,      \* isPaused$.value
    isUploading,   \* isUploading$.value
    progress,      \* progress$.value: [totalBytes, sentBytes, percent]
    job,           \* per transfer: the constants of one uploadFileMultipart call
    phase,         \* per transfer: position of its pipeline
    sentBytes,     \* per transfer: the closure variable sentBytes
    chunk,         \* per transfer: index -> [st, rl, att] of that chunk's inner observable
    failures,      \* requests the server has failed so far
    cancelled,     \* history: cancel() was called while the transfer's pipeline was live
    snap,          \* history: per transfer, how the last pause() found it (or, started
                   \* while paused, how it started)
    pauses,        \* history: pause() calls counted by the fair specification
    files,         \* UploaderComponent.files(): the list of FileUploadState
    owner,         \* per transfer: the fileIndex its startFileUpload call captured (0: none)
    captured,      \* per transfer: the fileState that call captured: its File and totalBytes
    sessions,      \* server: session id -> the chunk records stored for it, live sessions only
    output,        \* server: session id -> the final artifact and the totalChunks it was
                   \* assembled with, finalized sessions only
    reply,         \* server: the answer to the last request
    upload,        \* per session ever created: the object and chunk size of its client
    lastPut,       \* history: per session, index -> bytes of the last put the server accepted
    hist,          \* history: per session, what has happened to it (see NoHistory)
    call           \* the last call of one of the service's pure computations followed
                   \* on its own (see CalcSpec): its arguments and what it returned

vars == <<isPaused, isUploading, progress, job, phase, sentBytes, chunk,
          failures, cancelled, snap, pauses, files, owner, captured,
          sessions, output, reply, upload, lastPut, hist, call>>

\* The state of the UploaderComponent.
uiVars == <<files, owner, captured>>

\* The state of the server and of the objects sent to it.
serverVars == <<sessions, output, reply, upload, lastPut, hist>>

\* The computations followed on their own.
calcVars == <<call>>

\* The state of the UploadService and of its pipelines.
serviceVars == <<isPaused, isUploading, progress, job, phase, sentBytes, chunk,
                 failures, cancelled, snap, pauses>>

ZeroProgress == [totalBytes |-> 0, sentBytes |-> 0, percent |-> 0]

NoJob == [fileSize |-> 0, recommended |-> 0, chunkSize |-> 0, totalChunks |-> 0,
          concurrency |-> 0, retries |-> 0, uploadedSet |-> {}]

\* No fileState: the closure of a transfer no startFileUpload call has taken.
NoFile == [file |-> 0, totalBytes |-> 0]

NoSnap == [taken |-> FALSE, sent |-> 0, begun |-> {}, pending |-> {}]

\* A chunk's inner observable: st is its position, rl the retriesLeft that the
\* next failure passes to retryChunkUpload, att the chunk requests issued for it.
ChunkAt(st, rl, att) == [st |-> st, rl |-> rl, att |-> att]

Init ==
    /\ isPaused = FALSE
    /\ isUploading = FALSE
    /\ progress = ZeroProgress
    /\ job = [t \in Transfers |-> NoJob]
    /\ phase = [t \in Transfers |-> "idle"]
    /\ sentBytes = [t \in Transfers |-> 0]
    /\ chunk = [t \in Transfers |-> << >>]
    /\ failures = 0
    /\ cancelled = [t \in Transfers |-> FALSE]
    /\ snap = [t \in Transfers |-> NoSnap]
    /\ pauses = 0
    /\ files = << >>
    /\ owner = [t \in Transfers |-> 0]
    /\ captured = [t \in Transfers |-> NoFile]
    /\ sessions = << >>
    /\ output = << >>
    /\ reply = [op |-> "none", session |-> 0, arg |-> 0, result |-> "none", index |-> 0]
    /\ upload = << >>
    /\ lastPut = << >>
    /\ hist = << >>
    /\ call = [op |-> "none"]

\* ------------------------------------------------------- the chunk pipeline
Indices(j) == 0 .. (j.totalChunks - 1)

\* uploadSingleChunk: const start = chunkIndex * chunkSize;
\*                    const end = Math.min(file.size, start + chunkSize)
ChunkStart(j, i) == i * j.chunkSize
ChunkEnd(j, i) == Min(j.fileSize, ChunkStart(j, i) + j.chunkSize)
\* The bytesSent a chunk reports on success (end - start, also on a retry).
ChunkBytes(j, i) == ChunkEnd(j, i) - ChunkStart(j, i)

\* Math.min(99, Math.floor((sentBytes / totalBytes) * 100)), computed in exact
\* arithmetic (the floating-point product may round an exact integer down).
Percent(sent, total) == Min(99, (sent * 100) \div total)

\* Faulty variant: uploadSingleChunk without its pause test.
PauseNeverDetected == FALSE

\* The test that opens uploadSingleChunk: if (this.isPaused$.value)
PauseDetected == isPaused

\* uploadSingleChunk(..., chunkIndex, ..., maxRetries), called by mergeMap when
\* the chunk gets a slot: a paused service hands back the polling observable,
\* otherwise the chunk request is posted.
uploadSingleChunk(c, maxRetries) ==
    IF PauseDetected
    THEN ChunkAt("polling", maxRetries, c.att)
    ELSE ChunkAt("inflight", maxRetries, c.att + 1)

\* Faulty variant: retryChunkUpload gives up one retry early.
RetriesExhaustedEarly(retriesLeft) == retriesLeft <= 1

\* The test that opens retryChunkUpload: if (retriesLeft <= 0) throw
RetriesExhausted(retriesLeft) == retriesLeft <= 0

\* Chunk states that hold one of mergeMap's slots.
ActiveStates == {"polling", "inflight", "retrywait"}

Buffered(ch) == {i \in DOMAIN ch : ch[i].st = "buffered"}
Active(ch) == {i \in DOMAIN ch : ch[i].st \in ActiveStates}

SetMin(S) == CHOOSE x \in S : \A y \in S : x <= y

\* Faulty variant: mergeMap without its concurrency argument.
SubscribeAllUnbounded(j) ==
    [i \in 0 .. (j.totalChunks - 1) |->
       IF i \in j.uploadedSet THEN ChunkAt("uploaded", 0, 0)
       ELSE uploadSingleChunk(ChunkAt("buffered", 0, 0), j.retries)]

\* Faulty variant: a pending list that keeps the indices init reported.
SubscribeAllIndices(j) ==
    [i \in Indices(j) |->
       IF i < j.concurrency THEN uploadSingleChunk(ChunkAt("buffered", 0, 0), j.retries)
       ELSE ChunkAt("buffered", 0, 0)]

\* mergeMap(project, concurrency) on from(chunks): the first `concurrency`
\* pending indices are projected at subscription, the others are buffered.
SubscribeAll(j) ==
    LET pending == {i \in Indices(j) : i \notin j.uploadedSet}
        first == {i \in pending : Cardinality({k \in pending : k < i}) < j.concurrency}
    IN [i \in Indices(j) |->
          IF i \in j.uploadedSet THEN ChunkAt("uploaded", 0, 0)
          ELSE IF i \in first THEN uploadSingleChunk(ChunkAt("buffered", 0, 0), j.retries)
          ELSE ChunkAt("buffered", 0, 0)]

\* Faulty variant: complete() as soon as the buffer is empty, with chunks still active.
BufferDrained(ch) == {i \in DOMAIN ch : ch[i].st = "buffered"} = {}

\* mergeMap -> toArray: the outer observable completes (and concatMap issues
\* complete()) when the source is exhausted and no inner observable is active.
AllInnerDone(ch) == Buffered(ch) = {} /\ Active(ch) = {}

\* Faulty variant: the freed slot takes the lowest index not yet
\* acknowledged, whether or not another slot already works on it.
AfterInnerCompleteReclaim(j, ch) ==
    LET open == {i \in DOMAIN ch : ch[i].st \in {"buffered", "inflight"}}
    IN IF open = {} THEN ch
       ELSE [ch EXCEPT ![SetMin(open)] = uploadSingleChunk(ch[SetMin(open)], j.retries)]

\* Faulty variant: a mergeMap that leaves the freed slot empty.
AfterInnerCompleteIdle(j, ch) == ch

\* An inner observable completed: mergeMap projects the next buffered index.
AfterInnerComplete(j, ch) ==
    IF Buffered(ch) = {} THEN ch
    ELSE LET n == SetMin(Buffered(ch))
         IN [ch EXCEPT ![n] = uploadSingleChunk(ch[n], j.retries)]

\* finalize(() => { isUploading$.next(false); progress$.next({..., percent: 100}) })
FinalizeProgress(j) == [totalBytes |-> j.fileSize, sentBytes |-> j.fileSize, percent |-> 100]

\* Positions of a transfer's pipeline:
\*   "idle"       uploadFileMultipart not called yet
\*   "shortcut"   it returned of(void 0): every chunk was reported uploaded
\*   "uploading"  mergeMap is running the chunks
\*   "assembling" complete() was posted and is not answered yet
\*   "done"       complete() succeeded
\*   "rejected"   complete() failed
\*   "error"      a chunk used up its retries
Live(t) == phase[t] \in {"uploading", "assembling"}

\* complete() has been posted for the transfer.
FinalizeIssued(t) == phase[t] \in {"assembling", "done", "rejected"}

\* ----------------------------------------------------------------- actions
\* Faulty variant: the planner's chunk size, whatever init recommends.
PlannerChunkSize(recommended, config) == config.chunkSize

\* const chunkSize = init.recommendedChunkSize || config.chunkSize
chunkSizeOf(recommended, config) ==
    IF recommended # 0 THEN recommended ELSE config.chunkSize

\* uploadFileMultipart(file, init), subscribed at once by the caller's concatMap.
uploadFileMultipart(t, fileSize, recommended, uploaded) ==
    LET config == getOptimalConfig(fileSize)
        chunkSize == chunkSizeOf(recommended, config)
        totalChunks == Ceil(fileSize, chunkSize)
        j == [fileSize |-> fileSize, recommended |-> recommended, chunkSize |-> chunkSize,
              totalChunks |-> totalChunks,
              concurrency |-> config.concurrency, retries |-> config.retries,
              uploadedSet |-> uploaded]
        sent0 == Cardinality(uploaded) * chunkSize
    IN /\ phase[t] = "idle"
       /\ totalChunks <= MaxChunks
       /\ uploaded \subseteq 0 .. (totalChunks - 1)
       /\ job' = [job EXCEPT ![t] = j]
       /\ snap' = [snap EXCEPT ![t] =
                      IF isPaused /\ Cardinality(uploaded) # totalChunks
                      THEN [taken |-> TRUE, sent |-> sent0, begun |-> {},
                            pending |-> (0 .. (totalChunks - 1)) \ uploaded]
                      ELSE NoSnap]
       /\ IF Cardinality(uploaded) = totalChunks
          THEN /\ progress' = [totalBytes |-> fileSize, sentBytes |-> fileSize, percent |-> 100]
               /\ phase' = [phase EXCEPT ![t] = "shortcut"]
               /\ sentBytes' = [sentBytes EXCEPT ![t] = sent0]
               /\ chunk' = [chunk EXCEPT ![t] = [i \in Indices(j) |-> ChunkAt("uploaded", 0, 0)]]
               /\ UNCHANGED isUploading
          ELSE /\ isUploading' = TRUE
               /\ progress' = [totalBytes |-> fileSize, sentBytes |-> sent0,
                               percent |-> Percent(sent0, fileSize)]
               /\ phase' = [phase EXCEPT ![t] = "uploading"]
               /\ sentBytes' = [sentBytes EXCEPT ![t] = sent0]
               /\ chunk' = [chunk EXCEPT ![t] = SubscribeAll(j)]
       /\ UNCHANGED <<isPaused, failures, cancelled, pauses>>

\* A call of uploadFileMultipart on the service alone; the transfers are
\* numbered in the order of their calls.
Start(t, fileSize, recommended, uploaded) ==
    /\ \A u \in Transfers : u < t => phase[u] # "idle"
    /\ uploadFileMultipart(t, fileSize, recommended, uploaded)

\* What pause() finds: per live transfer its sentBytes, the indices whose first
\* request was already posted and is not yet answered for good, and the
\* indices not yet posted.
SnapOf(t) ==
    IF phase[t] = "uploading"
    THEN [taken |-> TRUE,
          sent |-> sentBytes[t],
          begun |-> {i \in DOMAIN chunk[t] : chunk[t][i].st \in {"inflight", "retrywait"}},
          pending |-> {i \in DOMAIN chunk[t] : chunk[t][i].st \in {"buffered", "polling"}}]
    ELSE NoSnap

\* pause(): this.isPaused$.next(true)
DoPause ==
    /\ isPaused' = TRUE
    /\ snap' = [t \in Transfers |-> SnapOf(t)]
    /\ UNCHANGED <<isUploading, progress, job, phase, sentBytes, chunk, failures, cancelled>>

Pause == DoPause /\ UNCHANGED pauses

\* pause(), at most MaxPauses times in a behaviour.
PauseBounded ==
    /\ pauses < MaxPauses
    /\ DoPause
    /\ pauses' = pauses + 1

\* The value resume() publishes on isPaused$.
ResumeValue == FALSE

\* resume()
Resume ==
    /\ isPaused' = ResumeValue
    /\ UNCHANGED <<isUploading, progress, job, phase, sentBytes, chunk, failures,
                   cancelled, snap, pauses>>

\* Faulty variant: a cancel() that resets the subjects and clears the pause flag.
CancelUnpaused ==
    /\ isPaused' = FALSE
    /\ snap' = [t \in Transfers |-> SnapOf(t)]
    /\ isUploading' = FALSE
    /\ progress' = ZeroProgress
    /\ cancelled' = [t \in Transfers |-> cancelled[t] \/ Live(t)]
    /\ UNCHANGED <<job, phase, sentBytes, chunk, failures, pauses>>

\* cancel(): this.pause(); isUploading$.next(false); progress$.next(zero)
Cancel ==
    /\ isPaused' = TRUE
    /\ snap' = [t \in Transfers |-> SnapOf(t)]
    /\ isUploading' = FALSE
    /\ progress' = ZeroProgress
    /\ cancelled' = [t \in Transfers |-> cancelled[t] \/ Live(t)]
    /\ UNCHANGED <<job, phase, sentBytes, chunk, failures, pauses>>

\* Faulty variant: the tick clears the interval and does not call uploadSingleChunk.
PollStuck(c, maxRetries) == c

\* What a tick of the polling interval does once the flag is clear:
\* clearInterval(check); this.uploadSingleChunk(...).subscribe(subscriber)
PollResume(c, maxRetries) == uploadSingleChunk(c, maxRetries)

\* One tick of the setInterval of a polling chunk: while paused nothing
\* happens; otherwise the interval is cleared and uploadSingleChunk is called
\* again.
PollTick(t, i) ==
    /\ phase[t] = "uploading"
    /\ i \in DOMAIN chunk[t]
    /\ chunk[t][i].st = "polling"
    /\ IF ~isPaused
       THEN chunk' = [chunk EXCEPT ![t][i] = PollResume(@, job[t].retries)]
       ELSE UNCHANGED chunk
    /\ UNCHANGED <<isPaused, isUploading, progress, job, phase, sentBytes, failures,
                   cancelled, snap, pauses>>

\* The server answers a chunk request with success: map(bytesSent => ...)
\* adds the bytes and publishes the progress, the inner observable completes,
\* mergeMap projects the next buffered index or, when none is left and none is
\* active, toArray emits and concatMap issues complete().
ChunkSuccess(t, i) ==
    /\ phase[t] = "uploading"
    /\ i \in DOMAIN chunk[t]
    /\ chunk[t][i].st = "inflight"
    /\ LET j == job[t]
           sent == sentBytes[t] + ChunkBytes(j, i)
           acked == [chunk[t] EXCEPT ![i].st = "acked"]
           next == AfterInnerComplete(j, acked)
       IN /\ sentBytes' = [sentBytes EXCEPT ![t] = sent]
          /\ progress' = [totalBytes |-> j.fileSize, sentBytes |-> sent,
                          percent |-> Percent(sent, j.fileSize)]
          /\ chunk' = [chunk EXCEPT ![t] = next]
          /\ phase' = [phase EXCEPT ![t] = IF AllInnerDone(next) THEN "assembling" ELSE @]
    /\ UNCHANGED <<isPaused, isUploading, job, failures, cancelled, snap, pauses>>

\* The server answers a chunk request with an error: catchError calls
\* retryChunkUpload, which either throws (the error reaches mergeMap, which
\* unsubscribes the sibling inner observables, and finalize runs) or arms the
\* retry timer.
ChunkFail(t, i, limit) ==
    /\ phase[t] = "uploading"
    /\ i \in DOMAIN chunk[t]
    /\ chunk[t][i].st = "inflight"
    /\ failures < limit
    /\ failures' = failures + 1
    /\ IF RetriesExhausted(chunk[t][i].rl)
       THEN /\ chunk' = [chunk EXCEPT ![t] =
                           [k \in DOMAIN @ |->
                              IF k = i THEN [@[k] EXCEPT !.st = "failed"]
                              ELSE IF @[k].st \in ActiveStates \cup {"buffered"}
                                   THEN [@[k] EXCEPT !.st = "dropped"]
                                   ELSE @[k]]]
            /\ phase' = [phase EXCEPT ![t] = "error"]
            /\ isUploading' = FALSE
            /\ progress' = FinalizeProgress(job[t])
       ELSE /\ chunk' = [chunk EXCEPT ![t][i].st = "retrywait"]
            /\ UNCHANGED <<phase, isUploading, progress>>
    /\ UNCHANGED <<isPaused, job, sentBytes, cancelled, snap, pauses>>

\* The setTimeout of retryChunkUpload fires: the chunk request is posted
\* again; its failure will call retryChunkUpload(retriesLeft - 1).
RetryTimer(t, i) ==
    /\ phase[t] = "uploading"
    /\ i \in DOMAIN chunk[t]
    /\ chunk[t][i].st = "retrywait"
    /\ chunk' = [chunk EXCEPT ![t][i] = ChunkAt("inflight", @.rl - 1, @.att + 1)]
    /\ UNCHANGED <<isPaused, isUploading, progress, job, phase, sentBytes, failures,
                   cancelled, snap, pauses>>

\* The server answers complete(): the pipeline completes and finalize runs.
CompleteOk(t) ==
    /\ phase[t] = "assembling"
    /\ phase' = [phase EXCEPT ![t] = "done"]
    /\ isUploading' = FALSE
    /\ progress' = FinalizeProgress(job[t])
    /\ UNCHANGED <<isPaused, job, sentBytes, chunk, failures, cancelled, snap, pauses>>

\* The server rejects complete(): the pipeline errors and finalize runs.
CompleteFail(t, limit) ==
    /\ phase[t] = "assembling"
    /\ failures < limit
    /\ failures' = failures + 1
    /\ phase' = [phase EXCEPT ![t] = "rejected"]
    /\ isUploading' = FALSE
    /\ progress' = FinalizeProgress(job[t])
    /\ UNCHANGED <<isPaused, job, sentBytes, chunk, cancelled, snap, pauses>>

\* The answers of the server and the timers; the server fails at most
\* `limit` requests.
Pipeline(limit) ==
    \/ \E t \in Transfers, i \in 0 .. (MaxChunks - 1) : PollTick(t, i)
    \/ \E t \in Transfers, i \in 0 .. (MaxChunks - 1) : ChunkSuccess(t, i)
    \/ \E t \in Transfers, i \in 0 .. (MaxChunks - 1) : ChunkFail(t, i, limit)
    \/ \E t \in Transfers, i \in 0 .. (MaxChunks - 1) : RetryTimer(t, i)
    \/ \E t \in Transfers : CompleteOk(t)
    \/ \E t \in Transfers : CompleteFail(t, limit)

\* One object's transfer: any file, any init answer, any interleaving of
\* pause(), resume(), cancel(), server answers and timers.
Next ==
    \/ /\ \E s \in FileSizes, r \in RecommendedSizes, u \in SUBSET (0 .. (MaxChunks - 1)) :
             Start(1, s, r, u)
       /\ UNCHANGED <<uiVars, serverVars, calcVars>>
    \/ Pause /\ UNCHANGED <<uiVars, serverVars, calcVars>>
    \/ Resume /\ UNCHANGED <<uiVars, serverVars, calcVars>>
    \/ Cancel /\ UNCHANGED <<uiVars, serverVars, calcVars>>
    \/ Pipeline(MaxFailures) /\ UNCHANGED <<uiVars, serverVars, calcVars>>

Spec == Init /\ [][Next]_vars

\* Several objects transferring through the one service at the same time.
BatchNext ==
    \/ /\ \E t \in Transfers, b \in BatchInits : Start(t, b[1], b[2], {})
       /\ UNCHANGED <<uiVars, serverVars, calcVars>>
    \/ Pause /\ UNCHANGED <<uiVars, serverVars, calcVars>>
    \/ Resume /\ UNCHANGED <<uiVars, serverVars, calcVars>>
    \/ Cancel /\ UNCHANGED <<uiVars, serverVars, calcVars>>
    \/ Pipeline(MaxBatchFailures) /\ UNCHANGED <<uiVars, serverVars, calcVars>>

BatchSpec == Init /\ [][BatchNext]_vars

\* Several transfers through the one service with cancel() and resume() and a
\* server that answers every request with success.
CancelNext ==
    \/ /\ \E t \in Transfers, b \in BatchInits : Start(t, b[1], b[2], {})
       /\ UNCHANGED <<uiVars, serverVars, calcVars>>
    \/ Resume /\ UNCHANGED <<uiVars, serverVars, calcVars>>
    \/ Cancel /\ UNCHANGED <<uiVars, serverVars, calcVars>>
    \/ /\ \E t \in Transfers, i \in 0 .. (MaxChunks - 1) : PollTick(t, i)
       /\ UNCHANGED <<uiVars, serverVars, calcVars>>
    \/ /\ \E t \in Transfers, i \in 0 .. (MaxChunks - 1) : ChunkSuccess(t, i)
       /\ UNCHANGED <<uiVars, serverVars, calcVars>>
    \/ /\ \E t \in Transfers : CompleteOk(t)
       /\ UNCHANGED <<uiVars, serverVars, calcVars>>

CancelSpec == Init /\ [][CancelNext]_vars

\* One object's transfer with a server that answers every request with
\* success, no cancel() and at most MaxPauses calls of pause().  The interval
\* and the HTTP answers are events the browser delivers, hence weak fairness.
LiveNext ==
    \/ /\ \E s \in FileSizes, r \in RecommendedSizes, u \in SUBSET (0 .. (MaxChunks - 1)) :
             Start(1, s, r, u)
       /\ UNCHANGED <<uiVars, serverVars, calcVars>>
    \/ PauseBounded /\ UNCHANGED <<uiVars, serverVars, calcVars>>
    \/ Resume /\ UNCHANGED <<uiVars, serverVars, calcVars>>
    \/ (\E i \in 0 .. (MaxChunks - 1) : PollTick(1, i)) /\ UNCHANGED <<uiVars, serverVars, calcVars>>
    \/ (\E i \in 0 .. (MaxChunks - 1) : ChunkSuccess(1, i)) /\ UNCHANGED <<uiVars, serverVars, calcVars>>
    \/ CompleteOk(1) /\ UNCHANGED <<uiVars, serverVars, calcVars>>

LiveSpec ==
    /\ Init
    /\ [][LiveNext]_vars
    /\ \A i \in 0 .. (MaxChunks - 1) : WF_vars(PollTick(1, i) /\ UNCHANGED <<uiVars, serverVars, calcVars>>)
    /\ \A i \in 0 .. (MaxChunks - 1) : WF_vars(ChunkSuccess(1, i) /\ UNCHANGED <<uiVars, serverVars, calcVars>>)
    /\ WF_vars(CompleteOk(1) /\ UNCHANGED <<uiVars, serverVars, calcVars>>)

\* The server's answer to the chunk request in flight for index i of
\* transfer t: success or failure.
ChunkAnswer(t, i) ==
    /\ ChunkSuccess(t, i) \/ ChunkFail(t, i, MaxFailures)
    /\ UNCHANGED <<uiVars, serverVars, calcVars>>

\* The server's answer to complete(): success or failure.
CompleteAnswer(t) ==
    /\ CompleteOk(t) \/ CompleteFail(t, MaxFailures)
    /\ UNCHANGED <<uiVars, serverVars, calcVars>>

\* The retry delay of index i of transfer t elapses.
RetryElapses(t, i) == RetryTimer(t, i) /\ UNCHANGED <<uiVars, serverVars, calcVars>>

\* One object's transfer with no pause() and no cancel() and a server that
\* answers every request, with success or with failure.  The answers and the
\* setTimeout of the retry are events the browser delivers, hence weak fairness.
AnsweredNext ==
    \/ /\ \E s \in FileSizes, r \in RecommendedSizes, u \in SUBSET (0 .. (MaxChunks - 1)) :
             Start(1, s, r, u)
       /\ UNCHANGED <<uiVars, serverVars, calcVars>>
    \/ \E i \in 0 .. (MaxChunks - 1) : ChunkAnswer(1, i)
    \/ \E i \in 0 .. (MaxChunks - 1) : RetryElapses(1, i)
    \/ CompleteAnswer(1)

AnsweredSpec ==
    /\ Init
    /\ [][AnsweredNext]_vars
    /\ \A i \in 0 .. (MaxChunks - 1) : WF_vars(ChunkAnswer(1, i))
    /\ \A i \in 0 .. (MaxChunks - 1) : WF_vars(RetryElapses(1, i))
    /\ WF_vars(CompleteAnswer(1))

\* ------------------------------------------------- the UploaderComponent
\* (angular-uploader/src/app/uploader/uploader.component.ts).  It keeps one
\* FileUploadState per file and starts one pipeline per startFileUpload call.
\* The service method it subscribes to, uploadFileMultipartWithProgress, is
\* modelled as uploadFileMultipart's pipeline with the two callbacks the
\* component passes: progress on every chunk success, assembling when every
\* chunk is acknowledged and complete() is posted.

\* FileUploadState.error is null or the message of the error that ended the
\* file's pipeline; a message is kept as its wording and the chunk number in it.
NoError == [text |-> "null", chunkNum |-> 0]

\* The message of the HttpErrorResponse of a failed init or complete request.
HttpError == [text |-> "Http failure response", chunkNum |-> 0]

\* Faulty variant: the chunk's index is passed on as it is.
ChunkNumZeroBased(chunkIndex) == chunkIndex

\* uploadSingleChunk: retryChunkUpload(uploadId, form, end - start, maxRetries,
\*                                     chunkIndex + 1, totalChunks)
ChunkNum(chunkIndex) == chunkIndex + 1

\* retryChunkUpload: throw new Error(`Failed to upload chunk ${chunkNum} after all retries`)
ExhaustedError(chunkNum) ==
    [text |-> "Failed to upload chunk after all retries", chunkNum |-> chunkNum]

\* addFiles: the FileUploadState of a newly added file; file stands for the
\* File object, size for its totalBytes.
NewFile(file, size) ==
    [file |-> file, size |-> size, percent |-> 0, sentBytes |-> 0, uploading |-> FALSE,
     assembling |-> FALSE, paused |-> FALSE, done |-> FALSE, error |-> NoError]

\* uploadingFiles = computed(() => files().filter(f => f.uploading).length)
uploadingFiles == Cardinality({k \in DOMAIN files : files[k].uploading})

\* globalUploading, as the constructor's effect keeps it: uploadingCount > 0.
globalUploading == uploadingFiles > 0

\* Faulty variant: canStart without its test for an assembling file.
canStartWhileAssembling ==
    /\ Len(files) > 0
    /\ ~globalUploading
    /\ \E k \in DOMAIN files : ~files[k].done /\ ~files[k].uploading

canStart ==
    /\ ~ \E k \in DOMAIN files : files[k].assembling
    /\ Len(files) > 0
    /\ ~globalUploading
    /\ \E k \in DOMAIN files : ~files[k].done /\ ~files[k].uploading

canPause ==
    /\ ~ \E k \in DOMAIN files : files[k].assembling
    /\ uploadingFiles > 0

canResume ==
    /\ ~ \E k \in DOMAIN files : files[k].assembling
    /\ \E k \in DOMAIN files :
          files[k].paused \/ (~files[k].done /\ ~files[k].uploading /\ files[k].percent > 0)

canCancel ==
    /\ ~ \E k \in DOMAIN files : files[k].assembling
    /\ \E k \in DOMAIN files : files[k].uploading \/ files[k].paused \/ files[k].percent > 0

\* What { ...updatedFiles[fileIndex] } is at a position the list does not
\* have: an entry with no field set, every one of which reads as falsy.
NoEntry ==
    [file |-> 0, size |-> 0, percent |-> 0, sentBytes |-> 0, uploading |-> FALSE,
     assembling |-> FALSE, paused |-> FALSE, done |-> FALSE, error |-> NoError]

\* updateFileState(fileIndex, updates):
\*   updatedFiles[fileIndex] = { ...updatedFiles[fileIndex], ...updates }
\* A fileIndex past the end of the list lengthens the list up to it.
updateFileState(fs, fileIndex, updates) ==
    LET base == IF fileIndex \in DOMAIN fs THEN fs[fileIndex] ELSE NoEntry
        merged == [x \in DOMAIN base |->
                     IF x \in DOMAIN updates THEN updates[x] ELSE base[x]]
        last == IF fileIndex > Len(fs) THEN fileIndex ELSE Len(fs)
    IN  [n \in 1 .. last |->
           IF n = fileIndex THEN merged
           ELSE IF n \in DOMAIN fs THEN fs[n] ELSE NoEntry]

\* The progress callback of startFileUpload(fileIndex); total is the
\* totalBytes of the fileState the call captured.
OnProgress(fs, k, total, sent, percent) ==
    IF k \in DOMAIN fs /\ fs[k].uploading /\ ~fs[k].done
    THEN updateFileState(fs, k, [percent |-> Min(percent, 99),
                                 sentBytes |-> Min(sent, total)])
    ELSE fs

\* The assembling callback of startFileUpload(fileIndex).
OnAssembling(fs, k, total) ==
    updateFileState(fs, k, [uploading |-> FALSE, assembling |-> TRUE,
                            percent |-> 100, sentBytes |-> total])

\* Faulty variant: an error handler that stops every file of the list.
OnErrorAll(fs, k, err) ==
    [n \in DOMAIN fs |->
       [fs[n] EXCEPT !.uploading = FALSE, !.assembling = FALSE, !.error = err]]

\* subscribe({ error: ... }) of startFileUpload(fileIndex): error: err?.message
OnError(fs, k, err) ==
    updateFileState(fs, k, [uploading |-> FALSE, assembling |-> FALSE, error |-> err])

\* subscribe({ complete: ... }) of startFileUpload(fileIndex).
OnComplete(fs, k, total) ==
    updateFileState(fs, k, [uploading |-> FALSE, assembling |-> FALSE, done |-> TRUE,
                            percent |-> 100, sentBytes |-> total])

\* The File object addFiles wraps: one no entry and no closure refers to.
NewFileObject ==
    LET used == {files[k].file : k \in DOMAIN files}
                  \cup {captured[t].file : t \in Transfers}
    IN  SetMin({n \in 1 .. (Cardinality(used) + 1) : n \notin used})

\* addFiles([file])
AddFiles(size) ==
    /\ Len(files) < MaxFiles
    /\ files' = Append(files, NewFile(NewFileObject, size))
    /\ UNCHANGED <<isPaused, isUploading, progress, job, phase, sentBytes, chunk,
                   failures, cancelled, snap, pauses, owner, captured, serverVars, calcVars>>

\* start(): the files that are neither done nor uploading.
PendingFiles == {k \in DOMAIN files : ~files[k].done /\ ~files[k].uploading}

\* Transfers no startFileUpload call has taken yet.
FreeSlots == {t \in Transfers : owner[t] = 0}

Rank(S, x) == Cardinality({y \in S : y < x})

\* start(): startFileUpload(actualIndex) for every pending file, each of which
\* marks its file uploading and posts its init request (a new transfer).
UiStart ==
    /\ canStart
    /\ PendingFiles # {}
    /\ Cardinality(PendingFiles) <= Cardinality(FreeSlots)
    /\ files' = [k \in DOMAIN files |->
                   IF k \in PendingFiles
                   THEN [files[k] EXCEPT !.uploading = TRUE, !.error = NoError]
                   ELSE files[k]]
    /\ owner' = [t \in Transfers |->
                   IF t \in FreeSlots /\ Rank(FreeSlots, t) < Cardinality(PendingFiles)
                   THEN CHOOSE k \in PendingFiles : Rank(PendingFiles, k) = Rank(FreeSlots, t)
                   ELSE owner[t]]
    /\ captured' = [t \in Transfers |->
                      IF owner'[t] # owner[t]
                      THEN [file |-> files[owner'[t]].file,
                            totalBytes |-> files[owner'[t]].size]
                      ELSE captured[t]]
    /\ UNCHANGED <<isPaused, isUploading, progress, job, phase, sentBytes, chunk,
                   failures, cancelled, snap, pauses, serverVars, calcVars>>

\* The init request of a transfer has been posted and is not answered yet.
InitPending(t) == owner[t] # 0 /\ phase[t] = "idle"

\* The init request is answered: concatMap subscribes to the pipeline.  A
\* session that already holds every chunk makes it complete at once.
InitAnswer(t, recommended, uploaded) ==
    /\ InitPending(t)
    /\ uploadFileMultipart(t, captured[t].totalBytes, recommended, uploaded)
    /\ files' = IF phase'[t] = "shortcut" THEN OnComplete(files, owner[t], captured[t].totalBytes)
                ELSE files
    /\ UNCHANGED <<owner, captured, serverVars, calcVars>>

\* The init request fails: the error handler runs.
InitFail(t, limit) ==
    /\ InitPending(t)
    /\ failures < limit
    /\ failures' = failures + 1
    /\ phase' = [phase EXCEPT ![t] = "initfailed"]
    /\ files' = OnError(files, owner[t], HttpError)
    /\ UNCHANGED <<isPaused, isUploading, progress, job, sentBytes, chunk,
                   cancelled, snap, pauses, owner, captured, serverVars, calcVars>>

\* What uploadFileMultipartWithProgress hands to the callbacks after a chunk
\* of transfer t succeeded: the transfer's own progress, then the assembling
\* notice if complete() is posted.
WithProgressAfterChunk(fs, t) ==
    LET k == owner[t]
        seen == OnProgress(fs, k, captured[t].totalBytes, sentBytes'[t],
                           Percent(sentBytes'[t], job[t].fileSize))
    IN IF phase'[t] = "assembling" THEN OnAssembling(seen, k, captured[t].totalBytes) ELSE seen

UiChunkSuccess(t, i) ==
    /\ owner[t] # 0
    /\ ChunkSuccess(t, i)
    /\ files' = WithProgressAfterChunk(files, t)
    /\ UNCHANGED <<owner, captured, serverVars, calcVars>>

UiChunkFail(t, i, limit) ==
    /\ owner[t] # 0
    /\ ChunkFail(t, i, limit)
    /\ files' = IF phase'[t] = "error"
                THEN OnError(files, owner[t], ExhaustedError(ChunkNum(i)))
                ELSE files
    /\ UNCHANGED <<owner, captured, serverVars, calcVars>>

UiCompleteOk(t) ==
    /\ owner[t] # 0
    /\ CompleteOk(t)
    /\ files' = OnComplete(files, owner[t], captured[t].totalBytes)
    /\ UNCHANGED <<owner, captured, serverVars, calcVars>>

UiCompleteFail(t, limit) ==
    /\ owner[t] # 0
    /\ CompleteFail(t, limit)
    /\ files' = OnError(files, owner[t], HttpError)
    /\ UNCHANGED <<owner, captured, serverVars, calcVars>>

\* pause(): what it does to the list after uploadSvc.pause().
PauseFiles(fs) ==
    [k \in DOMAIN fs |->
       IF fs[k].uploading THEN [fs[k] EXCEPT !.paused = TRUE, !.uploading = FALSE]
       ELSE fs[k]]

\* pause()
UiPause ==
    /\ canPause
    /\ Pause
    /\ files' = PauseFiles(files)
    /\ UNCHANGED <<owner, captured, serverVars, calcVars>>

\* resume()
UiResume ==
    /\ canResume
    /\ Resume
    /\ files' = [k \in DOMAIN files |->
                   IF files[k].paused
                   THEN [files[k] EXCEPT !.paused = FALSE, !.uploading = TRUE]
                   ELSE files[k]]
    /\ UNCHANGED <<owner, captured, serverVars, calcVars>>

\* cancel()
UiCancel ==
    /\ canCancel
    /\ Cancel
    /\ files' = [k \in DOMAIN files |->
                   [files[k] EXCEPT !.uploading = FALSE, !.assembling = FALSE,
                                    !.paused = FALSE, !.percent = 0, !.sentBytes = 0,
                                    !.error = NoError, !.done = FALSE]]
    /\ UNCHANGED <<owner, captured, serverVars, calcVars>>

\* The server's answers and the timers of the transfers the component started.
UiPipeline(limit) ==
    \/ \E t \in Transfers, b \in BatchInits :
          /\ InitPending(t)
          /\ b[1] = captured[t].totalBytes
          /\ InitAnswer(t, b[2], {})
    \/ \E t \in Transfers : InitFail(t, limit)
    \/ \E t \in Transfers, i \in 0 .. (MaxChunks - 1) : PollTick(t, i) /\ UNCHANGED <<uiVars, serverVars, calcVars>>
    \/ \E t \in Transfers, i \in 0 .. (MaxChunks - 1) : UiChunkSuccess(t, i)
    \/ \E t \in Transfers, i \in 0 .. (MaxChunks - 1) : UiChunkFail(t, i, limit)
    \/ \E t \in Transfers, i \in 0 .. (MaxChunks - 1) : RetryTimer(t, i) /\ UNCHANGED <<uiVars, serverVars, calcVars>>
    \/ \E t \in Transfers : UiCompleteOk(t)
    \/ \E t \in Transfers : UiCompleteFail(t, limit)

\* The component with its buttons, the server and the timers.
UiNext ==
    \/ \E b \in BatchInits : AddFiles(b[1])
    \/ UiStart
    \/ UiPause
    \/ UiResume
    \/ UiCancel
    \/ UiPipeline(MaxBatchFailures)

UiSpec == Init /\ [][UiNext]_vars

\* The answer to a transfer's init request, as the server of a fresh session gives it.
UiInitAnswer(t) ==
    \E b \in BatchInits :
        /\ InitPending(t)
        /\ b[1] = captured[t].totalBytes
        /\ InitAnswer(t, b[2], {})

\* A batch in which only the first transfer meets failing requests, with no
\* pause() and no cancel().  The server's answers and the timers of the other
\* transfers are events the browser delivers, hence weak fairness.
UiLiveNext ==
    \/ \E b \in BatchInits : AddFiles(b[1])
    \/ UiStart
    \/ \E t \in Transfers : UiInitAnswer(t)
    \/ InitFail(1, MaxFailures)
    \/ \E t \in Transfers, i \in 0 .. (MaxChunks - 1) : UiChunkSuccess(t, i)
    \/ \E i \in 0 .. (MaxChunks - 1) : UiChunkFail(1, i, MaxFailures)
    \/ \E i \in 0 .. (MaxChunks - 1) : RetryTimer(1, i) /\ UNCHANGED <<uiVars, serverVars, calcVars>>
    \/ \E t \in Transfers : UiCompleteOk(t)
    \/ UiCompleteFail(1, MaxFailures)

UiLiveSpec ==
    /\ Init
    /\ [][UiLiveNext]_vars
    /\ \A t \in Transfers \ {1} :
          /\ WF_vars(UiInitAnswer(t))
          /\ WF_vars(UiCompleteOk(t))
          /\ \A i \in 0 .. (MaxChunks - 1) : WF_vars(UiChunkSuccess(t, i))

\* removeFile(fileIndex): files.filter((_, index) => index !== fileIndex).
\* The entries after it move up one position; the pipelines that are running
\* keep the fileIndex they captured.
RemoveFile(fileIndex) ==
    /\ fileIndex \in DOMAIN files
    /\ files' = [n \in 1 .. (Len(files) - 1) |->
                   IF n < fileIndex THEN files[n] ELSE files[n + 1]]
    /\ UNCHANGED <<serviceVars, owner, captured, serverVars, calcVars>>

\* The component of UiLiveSpec whose user also removes files from the list.
RemoveNext ==
    \/ UiLiveNext
    \/ \E fileIndex \in 1 .. MaxFiles : RemoveFile(fileIndex)

RemoveSpec == Init /\ [][RemoveNext]_vars

\* ------------------------------------------------------------ the server
\* The Upload Session Registry, the Chunk Receiver and the Assembler (the
\* backend, index.ts, is not part of the sources at hand; they are modelled
\* from the specification, sections 4.4 to 4.6).  An object is a sequence of
\* bytes; the client sends the slices that uploadSingleChunk cuts.

Bytes == {0, 1}

\* The objects sent: every byte sequence of length 1 .. MaxObjectLen.
Objects == UNION {[1 .. n -> Bytes] : n \in 1 .. MaxObjectLen}

\* Bytes a put that does not come from the object's client may carry.
ForeignChunks == {<<1, 1>>}

\* The registry's sessions that are followed: one, since init, put and
\* finalize read and write the entry of the session they name and no other.
SessionIds == {1}

\* Faulty variant: a slice that takes one byte too many.
SliceInclusive(obj, start, end) == SubSeq(obj, start + 1, Min(Len(obj), end + 1))

\* file.slice(start, end): the bytes at offsets start .. end - 1.
Slice(obj, start, end) == SubSeq(obj, start + 1, end)

\* The constants of the upload of one object, as uploadFileMultipart sets them.
PlanOf(obj, chunkSize) ==
    [fileSize |-> Len(obj), chunkSize |-> chunkSize, totalChunks |-> Ceil(Len(obj), chunkSize)]

\* The chunk that uploadSingleChunk posts for chunkIndex i.
ChunkOf(obj, chunkSize, i) ==
    LET j == PlanOf(obj, chunkSize)
    IN Slice(obj, ChunkStart(j, i), ChunkEnd(j, i))

Reply(op, s, arg, result, index) ==
    [op |-> op, session |-> s, arg |-> arg, result |-> result, index |-> index]

\* A session's temp area is a set of chunk records, each at the location
\* that its index names.
Record(i, bytes) == [index |-> i, bytes |-> bytes]

Stored(store) == {r.index : r \in store}

\* Faulty variant: a put that adds a record and leaves the index's old one.
StoreAppend(store, i, bytes) == store \cup {Record(i, bytes)}

\* The Chunk Receiver's write to the location of index i: whatever was there
\* is overwritten.
Store(store, i, bytes) == {r \in store : r.index # i} \cup {Record(i, bytes)}

\* The bytes read back from the location of index i.
ReadChunk(store, i) == (CHOOSE r \in store : r.index = i).bytes

\* The indices of 0 .. totalChunks - 1 without a stored chunk.
Missing(store, totalChunks) == {i \in 0 .. (totalChunks - 1) : i \notin Stored(store)}

\* Faulty variant: the failure names the last index of the object.
MissingIndexLast(store, totalChunks) == totalChunks - 1

\* The index that MissingChunk names: the first one found absent.
MissingIndex(store, totalChunks) == SetMin(Missing(store, totalChunks))

\* The stored chunks 0 .. n - 1 concatenated in index order.
RECURSIVE Concat(_, _)
Concat(store, n) == IF n = 0 THEN << >> ELSE Concat(store, n - 1) \o ReadChunk(store, n - 1)

\* Faulty variant: a finalize that keeps the session.
KeepSession(ss, s) == ss

\* The Assembler's cleanup: the chunk records and the session are deleted.
DeleteSession(ss, s) == [k \in DOMAIN ss \ {s} |-> ss[k]]

\* Faulty variant: a failing finalize that purges the session's chunks.
PurgeOnFailure(ss, s) == [ss EXCEPT ![s] = {}]

\* What a finalize that fails with MissingChunk leaves of the sessions.
AfterMissingChunk(ss, s) == ss

NoHistory == [foreign |-> FALSE, repeated |-> FALSE, reordered |-> FALSE, refused |-> FALSE]

\* init(objectName, declaredSize, mimeType): a fresh session with no chunk.
InitSession(obj, chunkSize) ==
    LET s == Len(upload) + 1
    IN /\ s \in SessionIds
       /\ sessions' = [k \in DOMAIN sessions \cup {s} |-> IF k = s THEN {} ELSE sessions[k]]
       /\ upload' = Append(upload, [object |-> obj, chunkSize |-> chunkSize])
       /\ lastPut' = Append(lastPut, << >>)
       /\ hist' = Append(hist, NoHistory)
       /\ reply' = Reply("init", s, 0, "ok", 0)
       /\ UNCHANGED <<output, serviceVars, uiVars, calcVars>>

\* put(sessionId, index, bytes)
PutChunk(s, i, bytes) ==
    IF s \notin DOMAIN sessions
    THEN /\ reply' = Reply("put", s, i, "SessionNotFound", 0)
         /\ UNCHANGED <<sessions, output, upload, lastPut, hist, serviceVars, uiVars, calcVars>>
    ELSE /\ sessions' = [sessions EXCEPT ![s] = Store(@, i, bytes)]
         /\ lastPut' = [lastPut EXCEPT ![s] =
                           [k \in DOMAIN @ \cup {i} |-> IF k = i THEN bytes ELSE @[k]]]
         /\ hist' = [hist EXCEPT
               ![s].foreign =
                   @ \/ i \notin Indices(PlanOf(upload[s].object, upload[s].chunkSize))
                     \/ bytes # ChunkOf(upload[s].object, upload[s].chunkSize, i),
               ![s].repeated = @ \/ i \in DOMAIN lastPut[s],
               ![s].reordered = @ \/ \E k \in DOMAIN lastPut[s] : k > i]
         /\ reply' = Reply("put", s, i, "ok", 0)
         /\ UNCHANGED <<output, upload, serviceVars, uiVars, calcVars>>

\* A chunk request of the object's client arrives (a first attempt or a
\* retry, in any order).
ClientPut(s, i) ==
    /\ s \in DOMAIN upload
    /\ i \in Indices(PlanOf(upload[s].object, upload[s].chunkSize))
    /\ PutChunk(s, i, ChunkOf(upload[s].object, upload[s].chunkSize, i))

\* finalize(sessionId, totalChunks, objectName)
Finalize(s, totalChunks) ==
    IF s \notin DOMAIN sessions
    THEN /\ reply' = Reply("finalize", s, totalChunks, "SessionNotFound", 0)
         /\ UNCHANGED <<sessions, output, upload, lastPut, hist, serviceVars, uiVars, calcVars>>
    ELSE IF Missing(sessions[s], totalChunks) # {}
    THEN /\ reply' = Reply("finalize", s, totalChunks, "MissingChunk",
                           MissingIndex(sessions[s], totalChunks))
         /\ sessions' = AfterMissingChunk(sessions, s)
         /\ hist' = [hist EXCEPT ![s].refused = TRUE]
         /\ UNCHANGED <<output, upload, lastPut, serviceVars, uiVars, calcVars>>
    ELSE /\ output' = [k \in DOMAIN output \cup {s} |->
                          IF k = s
                          THEN [bytes |-> Concat(sessions[s], totalChunks),
                                totalChunks |-> totalChunks]
                          ELSE output[k]]
         /\ sessions' = DeleteSession(sessions, s)
         /\ reply' = Reply("finalize", s, totalChunks, "ok", 0)
         /\ UNCHANGED <<upload, lastPut, hist, serviceVars, uiVars, calcVars>>

\* Sessions created by init, and the requests that reach them: the chunks of
\* their clients in any order and any number of times, puts from elsewhere,
\* and finalize calls with any totalChunks.
ServerNext ==
    \/ \E obj \in Objects, cs \in 1 .. MaxObjectLen : InitSession(obj, cs)
    \/ \E s \in SessionIds, i \in 0 .. (MaxObjectLen - 1) : ClientPut(s, i)
    \/ \E s \in SessionIds, i \in 0 .. (MaxObjectLen - 1), b \in ForeignChunks :
          s \in DOMAIN upload /\ PutChunk(s, i, b)
    \/ \E s \in SessionIds, n \in 1 .. MaxObjectLen : s \in DOMAIN upload /\ Finalize(s, n)

ServerSpec == Init /\ [][ServerNext]_vars

\* ------------------------------------------------- computations on their own
\* The planner, the chunk boundaries and the retry delay are computed from
\* their arguments alone.  CalcSpec applies them to arguments beyond the
\* files that the transfers above send (the planner's thresholds, every
\* size / chunk size combination up to MaxSplitSize, objects of more than 100
\* chunks); call holds the last application.

\* File sizes handed to getOptimalConfig: the empty file, each threshold of
\* the table with its two neighbours, and sizes inside the classes.
PlanSizes ==
    {0, 1, 50 * MB - 1, 50 * MB, 50 * MB + 1, 120 * MB,
     500 * MB - 1, 500 * MB, 500 * MB + 1, 2 * GB - 1, 2 * GB, 2 * GB + 1,
     10 * GB - 1, 10 * GB, 10 * GB + 1, 20 * GB}

\* const config = this.getOptimalConfig(file.size);
\* const totalChunks = Math.ceil(file.size / chunkSize)   (no recommended size)
\* The plan computed by the call before this one is kept beside it (the first
\* call is its own predecessor).
PlanCall(fileSize) ==
    LET this == [fileSize |-> fileSize, config |-> getOptimalConfig(fileSize)]
    IN /\ call' = [op |-> "plan", fileSize |-> fileSize, config |-> this.config,
                   totalChunks |-> Ceil(fileSize, this.config.chunkSize),
                   before |-> IF call.op = "plan"
                              THEN [fileSize |-> call.fileSize, config |-> call.config]
                              ELSE this]
       /\ UNCHANGED <<serviceVars, uiVars, serverVars>>

\* Object and chunk sizes whose chunk boundaries are computed.
SplitSizes == 1 .. MaxSplitSize

\* totalChunks as uploadFileMultipart computes it, and for every chunkIndex
\* the start and end that uploadSingleChunk hands to file.slice.
SplitCall(fileSize, chunkSize) ==
    LET j == [fileSize |-> fileSize, chunkSize |-> chunkSize,
              totalChunks |-> Ceil(fileSize, chunkSize)]
    IN /\ call' = [op |-> "split", fileSize |-> fileSize, chunkSize |-> chunkSize,
                   totalChunks |-> j.totalChunks,
                   ranges |-> [i \in Indices(j) |->
                                 [start |-> ChunkStart(j, i), end |-> ChunkEnd(j, i)]]]
       /\ UNCHANGED <<serviceVars, uiVars, serverVars>>

\* UPLOAD_CONFIG, in milliseconds.
BASE_RETRY_DELAY == 1000
LARGE_FILE_EXTRA_DELAY == 2000

\* The retry budgets that uploadSingleChunk is called with: config.retries.
RetryBudgets == {getOptimalConfig(s).retries : s \in PlanSizes}

\* totalChunks of the objects whose chunks are retried: on both sides of the
\* 100 chunks from which the extra delay applies.
RetryTotals == {1, 100, 101}

\* Faulty variant: the same wait before every resend.
RetryDelayFlat(retriesLeft, totalChunks) ==
    BASE_RETRY_DELAY + (IF totalChunks > 100 THEN LARGE_FILE_EXTRA_DELAY ELSE 0)

\* const delay = (5 - retriesLeft) * BASE_RETRY_DELAY
\*               + (totalChunks > 100 ? LARGE_FILE_EXTRA_DELAY : 0)
RetryDelay(retriesLeft, totalChunks) ==
    (5 - retriesLeft) * BASE_RETRY_DELAY
       + (IF totalChunks > 100 THEN LARGE_FILE_EXTRA_DELAY ELSE 0)

\* retryChunkUpload(..., retriesLeft, chunkNum, totalChunks): it throws, or
\* arms the timer of the resend.  maxRetries (the budget the chunk started
\* with) and retry (the number of this call in the chunk's chain) are kept
\* beside its arguments.
retryChunkUpload(maxRetries, retriesLeft, totalChunks, retry) ==
    [op |-> "retry", maxRetries |-> maxRetries, retriesLeft |-> retriesLeft,
     totalChunks |-> totalChunks, retry |-> retry,
     thrown |-> RetriesExhausted(retriesLeft),
     delay |-> IF RetriesExhausted(retriesLeft) THEN 0
               ELSE RetryDelay(retriesLeft, totalChunks)]

\* The request of uploadSingleChunk fails: its catchError calls
\* retryChunkUpload(uploadId, form, end - start, maxRetries, ...).
FirstFailure(maxRetries, totalChunks) ==
    /\ call' = retryChunkUpload(maxRetries, maxRetries, totalChunks, 1)
    /\ UNCHANGED <<serviceVars, uiVars, serverVars>>

\* The resend fails: its catchError calls retryChunkUpload(..., retriesLeft - 1, ...).
ResendFailure ==
    /\ call.op = "retry"
    /\ ~call.thrown
    /\ call' = retryChunkUpload(call.maxRetries, call.retriesLeft - 1,
                                call.totalChunks, call.retry + 1)
    /\ UNCHANGED <<serviceVars, uiVars, serverVars>>

CalcNext ==
    \/ \E s \in PlanSizes : PlanCall(s)
    \/ \E s \in SplitSizes, c \in SplitSizes : SplitCall(s, c)
    \/ \E m \in RetryBudgets, n \in RetryTotals : FirstFailure(m, n)
    \/ ResendFailure

CalcSpec == Init /\ [][CalcNext]_vars

\* ------------------------------------------------------------------ claims
InFlight(t) == {i \in DOMAIN chunk[t] : chunk[t][i].st = "inflight"}

RECURSIVE SumBytes(_, _)
SumBytes(j, S) ==
    IF S = {} THEN 0
    ELSE LET i == SetMin(S) IN ChunkBytes(j, i) + SumBytes(j, S \ {i})

\* Chunk requests issued so far for index i (0 before the pipeline exists).
Att(ch, i) == IF i \in DOMAIN ch THEN ch[i].att ELSE 0
St(ch, i) == IF i \in DOMAIN ch THEN ch[i].st ELSE "none"

AllIndices == 0 .. (MaxChunks - 1)

\* C1: for one object's transfer the chunk requests in flight at the same
\* time (first attempts and retries together) never exceed the concurrency
\* that the planner gives for the object's size.
C1_BoundedConcurrency ==
    \A t \in Transfers :
        Cardinality(InFlight(t)) <= getOptimalConfig(job[t].fileSize).concurrency

\* C1 witness: the pool is full (as many requests in flight as the plan
\* allows, one of them a retry) while further indices wait in the buffer.
C1_Witness ==
    \E t \in Transfers :
        /\ phase[t] = "uploading"
        /\ Cardinality(InFlight(t)) = job[t].concurrency
        /\ Buffered(chunk[t]) # {}
        /\ \E i \in InFlight(t) : chunk[t][i].att >= 2

\* C2: complete() is posted only when every index 0..totalChunks-1 is
\* acknowledged (answered with success, or reported as received by init):
\* never with a chunk buffered, polling, in flight, awaiting a retry or failed.
C2_FinalizeAfterAllAcked ==
    \A t \in Transfers :
        FinalizeIssued(t) =>
            \A i \in Indices(job[t]) : chunk[t][i].st \in {"acked", "uploaded"}

\* C2 witness: complete() is outstanding for a transfer that had a chunk
\* reported by init and another one that needed a retry.
C2_Witness ==
    \E t \in Transfers :
        /\ phase[t] = "assembling"
        /\ job[t].uploadedSet # {}
        /\ \E i \in Indices(job[t]) : chunk[t][i].att >= 2

\* C3: a chunk is requested at most maxRetries + 1 times; it fails for good
\* exactly when the request number maxRetries + 1 has failed (a chunk that
\* waits for a retry has failed at most maxRetries times), and then the
\* transfer is in its error state.
C3_RetryExhaustion ==
    \A t \in Transfers : \A i \in DOMAIN chunk[t] :
        LET c == chunk[t][i]
            R == getOptimalConfig(job[t].fileSize).retries
        IN /\ c.att <= R + 1
           /\ c.st = "retrywait" => c.att <= R
           /\ c.st = "failed" => c.att = R + 1 /\ phase[t] = "error"
           /\ phase[t] = "error" => \E k \in DOMAIN chunk[t] : chunk[t][k].st = "failed"

\* C3 witness: a chunk of a 5-retry file has failed for good after its sixth
\* request, with a sibling index dropped from the buffer.
C3_Witness ==
    \E t \in Transfers : \E i, k \in DOMAIN chunk[t] :
        /\ chunk[t][i].st = "failed" /\ phase[t] = "error"
        /\ job[t].retries = 5 /\ chunk[t][i].att = 6
        /\ chunk[t][k].st = "dropped"

\* C4 as stated: between pause() and resume() the published sentBytes of an
\* uploading transfer does not increase.
C4_NoProgressWhilePaused ==
    [][(isPaused /\ isPaused' /\ phase[1] = "uploading" /\ phase'[1] = "uploading")
          => progress'.sentBytes <= progress.sentBytes]_vars

\* C4 amended: between pause() and resume() the sentBytes of an uploading
\* transfer grows only by chunks whose transmission had begun before pause()
\* was called (in flight or awaiting a retry): it never exceeds the value at
\* the pause plus the bytes of those chunks, and so does the published value.
C4_OnlyBegunChunksProgress ==
    \A t \in Transfers :
        (isPaused /\ phase[t] = "uploading" /\ snap[t].taken) =>
            LET limit == snap[t].sent + SumBytes(job[t], snap[t].begun)
            IN /\ sentBytes[t] <= limit
               /\ progress.totalBytes = job[t].fileSize => progress.sentBytes <= limit

\* C4 witness: paused, with more bytes sent than at the time of the pause,
\* and indices still waiting.
C4_Witness ==
    \E t \in Transfers :
        /\ isPaused /\ phase[t] = "uploading" /\ snap[t].taken
        /\ sentBytes[t] > snap[t].sent
        /\ progress.sentBytes = sentBytes[t]
        /\ \E i \in DOMAIN chunk[t] : chunk[t][i].st = "polling"

\* C5: while the pause flag is set no first request of an index is posted;
\* an index that gets a slot while the flag is set goes to polling.
C5_NoFirstAttemptWhilePaused ==
    [][\A t \in Transfers : \A i \in AllIndices :
          /\ (Att(chunk[t], i) = 0 /\ Att(chunk'[t], i) > 0) => (~isPaused /\ ~isPaused')
          /\ (isPaused /\ St(chunk[t], i) \in {"buffered", "none"}
                /\ St(chunk'[t], i) \notin {"buffered", "none", "uploaded", "dropped"})
             => (St(chunk'[t], i) = "polling" /\ Att(chunk'[t], i) = 0)]_vars

\* C5 witness: while paused an in-flight request has finished and the worker
\* that took the next index is polling.
C5_Witness ==
    \E t \in Transfers : \E i, k \in DOMAIN chunk[t] :
        /\ isPaused /\ snap[t].taken
        /\ i \in snap[t].begun /\ chunk[t][i].st = "acked"
        /\ k \in snap[t].pending /\ chunk[t][k].st = "polling" /\ chunk[t][k].att = 0
        /\ \E m \in DOMAIN chunk[t] : chunk[t][m].st = "inflight"

\* C6 as stated: the retry request of a chunk that waits out its retry delay
\* is not posted while the pause flag is set.
C6_RetryHonoursPause ==
    [][\A t \in Transfers : \A i \in AllIndices :
          (St(chunk[t], i) = "retrywait" /\ St(chunk'[t], i) = "inflight") => ~isPaused]_vars

\* C7: once resume() has been called on a paused transfer, with no failing
\* request and no further pause() or cancel(), every index that was pending
\* at the pause is eventually acknowledged and the transfer reaches done.
C7_ResumeCompletes ==
    (phase[1] = "uploading" /\ snap[1].taken /\ ~isPaused /\ pauses = MaxPauses)
        ~> (phase[1] = "done" /\ \A i \in snap[1].pending : chunk[1][i].st = "acked")

\* C7 witness: a transfer that was paused with indices pending is done.
C7_Witness ==
    /\ phase[1] = "done" /\ pauses = MaxPauses /\ snap[1].taken
    /\ snap[1].pending # {} /\ snap[1].begun # {}
    /\ \A i \in snap[1].pending : chunk[1][i].st = "acked"

\* C8 as stated: when a request that was in flight at the time of cancel()
\* is answered, the published progress stays at the reset value.
C8_InFlightResultDiscarded ==
    [][\A t \in Transfers : \A i \in AllIndices :
          (cancelled[t] /\ isPaused /\ i \in snap[t].begun
             /\ St(chunk[t], i) = "inflight" /\ St(chunk'[t], i) = "acked"
             /\ progress = ZeroProgress)
          => progress' = ZeroProgress]_vars

\* C9 as stated: after cancel() no chunk of the cancelled transfer is
\* requested and complete() is not posted for it.
C9_CancelStopsTransfer ==
    [][\A t \in Transfers :
          cancelled[t] =>
             /\ \A i \in AllIndices : Att(chunk'[t], i) = Att(chunk[t], i)
             /\ FinalizeIssued(t)' => FinalizeIssued(t)]_vars

\* C10 as stated: a progress, completion or failure event of one transfer
\* leaves the flags and the progress that a concurrently running transfer
\* publishes unchanged.
C10_NoSharedState ==
    [][\A t, u \in Transfers :
          (t # u /\ Live(t) /\ Live(u) /\ ~cancelled[u]
             /\ (sentBytes'[t] # sentBytes[t] \/ phase'[t] # phase[t]))
          => (progress' = progress /\ isUploading' = isUploading)]_vars

\* The pipeline of a transfer ended with an error: init failed, a chunk used
\* up its retries, or complete() was rejected.
Failed(t) == phase[t] \in {"initfailed", "error", "rejected"}

\* C11: when one object's transfer ends in error, the FileUploadState of
\* every other file of the list and the pipeline of every other transfer are
\* left as they were by that step; and a transfer other than the failing one,
\* meeting no failure of its own, eventually completes and its file is done.
C11_FailureIsolation ==
    /\ [][\A t \in Transfers :
            (~Failed(t) /\ Failed(t)') =>
               /\ \A n \in DOMAIN files : n # owner[t] => files'[n] = files[n]
               /\ \A u \in Transfers \ {t} :
                     /\ phase'[u] = phase[u]
                     /\ chunk'[u] = chunk[u]
                     /\ sentBytes'[u] = sentBytes[u]]_vars
    /\ \A u \in Transfers \ {1} :
          (Failed(1) /\ owner[u] # 0)
             ~> (phase[u] = "done" /\ files[owner[u]].done)

\* C11 witness: one file's transfer has used up a chunk's retries while
\* another file of the batch is in the middle of its own transfer.
C11_Witness ==
    \E t, u \in Transfers :
        /\ t # u /\ owner[t] # 0 /\ owner[u] # 0 /\ owner[t] # owner[u]
        /\ phase[t] = "error" /\ files[owner[t]].error # NoError
        /\ phase[u] = "uploading" /\ files[owner[u]].uploading
        /\ 0 < files[owner[u]].sentBytes
        /\ files[owner[u]].sentBytes < files[owner[u]].size

\* A step that answers a finalize call (every request sets reply).
FinalizeStep == reply'.op = "finalize"

\* C12: when every accepted put of a session was a chunk of its object (the
\* slices uploadSingleChunk cuts, in any arrival order, any of them repeated)
\* and finalize succeeded with the object's totalChunks, the artifact equals
\* the object byte for byte.
C12_RoundTrip ==
    \A s \in DOMAIN output :
        (~hist[s].foreign
           /\ output[s].totalChunks = PlanOf(upload[s].object, upload[s].chunkSize).totalChunks)
        => output[s].bytes = upload[s].object

\* C12 witness: an object whose last chunk is short was assembled from chunks
\* that arrived out of index order, one of them twice.
C12_Witness ==
    \E s \in DOMAIN output :
        /\ ~hist[s].foreign /\ hist[s].reordered /\ hist[s].repeated
        /\ Len(upload[s].object) = 3 /\ upload[s].chunkSize = 2
        /\ output[s].totalChunks = 2
        /\ output[s].bytes = upload[s].object

\* C13: a finalize on a live session succeeds exactly when a chunk is stored
\* for every index 0 .. totalChunks - 1; otherwise it fails with MissingChunk
\* naming an index of that range that has no stored chunk.
C13_FinalizeNeedsAllChunks ==
    [][(FinalizeStep /\ reply'.session \in DOMAIN sessions) =>
          LET store == sessions[reply'.session]
              range == 0 .. (reply'.arg - 1)
          IN /\ reply'.result = "ok" <=> range \subseteq Stored(store)
             /\ reply'.result # "ok" =>
                   /\ reply'.result = "MissingChunk"
                   /\ reply'.index \in range
                   /\ reply'.index \notin Stored(store)]_vars

\* C13 witness: finalize for three chunks with only the indices 0 and 2
\* stored was answered MissingChunk(1).
C13_Witness ==
    /\ reply.op = "finalize" /\ reply.result = "MissingChunk" /\ reply.index = 1
    /\ reply.arg = 3
    /\ reply.session \in DOMAIN sessions
    /\ Stored(sessions[reply.session]) = {0, 2}

\* C14: a finalize on a session that an earlier finalize has assembled fails
\* with SessionNotFound and leaves the artifacts as they are.
C14_SecondFinalizeFails ==
    [][(FinalizeStep /\ reply'.session \in DOMAIN output) =>
          (reply'.result = "SessionNotFound" /\ output' = output)]_vars

\* C14 witness: the second finalize of an assembled session was refused.
C14_Witness ==
    /\ reply.op = "finalize" /\ reply.result = "SessionNotFound"
    /\ reply.session \in DOMAIN output
    /\ output[reply.session].bytes = upload[reply.session].object

\* C15: a finalize that fails with MissingChunk leaves the session, its chunk
\* records and the artifacts as they were (none is exposed); a session that
\* was refused this way and has since received the missing indices is
\* assembled by the next finalize.
C15_FailedFinalizeKeepsSession ==
    [][FinalizeStep =>
          /\ reply'.result = "MissingChunk" =>
                /\ sessions' = sessions
                /\ output' = output
                /\ reply'.session \notin DOMAIN output'
          /\ (reply'.session \in DOMAIN sessions /\ hist[reply'.session].refused
                /\ (0 .. (reply'.arg - 1)) \subseteq Stored(sessions[reply'.session]))
             => (reply'.result = "ok" /\ reply'.session \in DOMAIN output')]_vars

\* C15 witness: a session whose finalize had failed with MissingChunk has
\* been assembled into the object after the missing chunk arrived.
C15_Witness ==
    \E s \in DOMAIN output :
        /\ hist[s].refused /\ ~hist[s].foreign
        /\ output[s].totalChunks >= 2
        /\ output[s].bytes = upload[s].object

\* C16: a live session holds at most one chunk record per index, the record
\* of an index holds the bytes of the last put for that index, and a put to a
\* live session is accepted whatever its index and whatever is stored.
C16_OneRecordPerIndex ==
    /\ \A s \in DOMAIN sessions :
          /\ \A r, q \in sessions[s] : r.index = q.index => r = q
          /\ Stored(sessions[s]) = DOMAIN lastPut[s]
          /\ \A r \in sessions[s] : r.bytes = lastPut[s][r.index]
    /\ (reply.op = "put" /\ reply.session \in DOMAIN sessions) => reply.result = "ok"

\* C16 witness: an index was put again with other bytes after a higher index
\* had been put, and holds one record, with the later bytes.
C16_Witness ==
    \E s \in DOMAIN sessions :
        /\ hist[s].repeated /\ hist[s].reordered /\ hist[s].foreign
        /\ reply.op = "put" /\ reply.session = s /\ reply.arg = 0
        /\ 1 \in Stored(sessions[s])
        /\ ReadChunk(sessions[s], 0) # ChunkOf(upload[s].object, upload[s].chunkSize, 0)
        /\ Cardinality(sessions[s]) = Cardinality(Stored(sessions[s]))

\* C17 as stated: while a transfer is uploading (paused or not) or assembling,
\* and after it has failed, the percent published for it is below 100.
C17_PercentBelow100UntilFinalized ==
    \A t \in Transfers :
        (phase[t] \in {"uploading", "assembling", "error", "rejected"}
           /\ progress.totalBytes = job[t].fileSize)
        => progress.percent < 100

\* The status a FileUploadState shows.
Status(f) ==
    IF f.done THEN "Done"
    ELSE IF f.error # NoError THEN "Error"
    ELSE IF f.assembling THEN "Assembling"
    ELSE IF f.paused THEN "Paused"
    ELSE IF f.uploading THEN "Uploading"
    ELSE "Pending"

\* The transitions of the Transfer Scheduler's state machine (cancel apart).
StatusTransitions ==
    {<<"Pending", "Uploading">>, <<"Uploading", "Paused">>, <<"Paused", "Uploading">>,
     <<"Uploading", "Assembling">>, <<"Assembling", "Done">>,
     <<"Uploading", "Error">>, <<"Assembling", "Error">>}

\* C18 as stated: the status of a file changes only along the transitions of
\* the state machine, or to Pending by cancel().
C18_StatusTransitions ==
    [][\A k \in DOMAIN files :
          Status(files'[k]) # Status(files[k]) =>
             \/ <<Status(files[k]), Status(files'[k])>> \in StatusTransitions
             \/ UiCancel /\ Status(files'[k]) = "Pending"]_vars

\* C19 as stated: while the transfer is uploading or assembling, no step
\* other than cancel() lowers the published sentBytes.
C19_SentBytesMonotone ==
    [][(Live(1) /\ ~Cancel) => progress'.sentBytes >= progress.sentBytes]_vars

\* C20 as stated: a transfer that starts on a session holding every index
\* posts no chunk and is at once in the position where complete() is posted.
C20_ShortcutAssembles ==
    [][(phase[1] = "idle" /\ phase'[1] # "idle"
          /\ job'[1].uploadedSet = Indices(job'[1]))
       => (FinalizeIssued(1)' /\ \A i \in AllIndices : Att(chunk'[1], i) = 0)]_vars

\* The indices for which the transfer posted at least one chunk request.
Transmitted(t) == {i \in AllIndices : Att(chunk[t], i) >= 1}

Posts(t, i) == Att(chunk'[t], i) > Att(chunk[t], i)

\* C22: within a transfer a chunk request for an index is posted only while
\* no request for that index is outstanding: one request per step, a first
\* one for an index that was waiting for its slot or polling the pause flag,
\* a further one only from the retry delay that the failure of the previous
\* one armed; and an index that got its slot is never queued again.
C22_OneRequestPerIndex ==
    [][\A t \in Transfers : \A i \in AllIndices :
          /\ Posts(t, i) =>
                /\ Att(chunk'[t], i) = Att(chunk[t], i) + 1
                /\ St(chunk'[t], i) = "inflight"
                /\ St(chunk[t], i) # "inflight"
                /\ IF Att(chunk[t], i) = 0
                   THEN St(chunk[t], i) \in {"none", "buffered", "polling"}
                   ELSE St(chunk[t], i) = "retrywait"
          /\ (St(chunk[t], i) \notin {"none", "buffered"}) => St(chunk'[t], i) # "buffered"]_vars

\* C22 witness: two indices of one transfer are in flight side by side, one
\* on its first request and one on a retry, with a further index still queued.
C22_Witness ==
    \E t \in Transfers : \E i, k \in InFlight(t) :
        /\ i # k
        /\ chunk[t][i].att = 1 /\ chunk[t][k].att >= 2
        /\ job[t].concurrency = 2
        /\ Buffered(chunk[t]) # {}

\* The bytes of the chunks 0 .. n - 1 of a split, added up.
RECURSIVE RangeBytes(_, _)
RangeBytes(ranges, n) ==
    IF n = 0 THEN 0
    ELSE RangeBytes(ranges, n - 1) + (ranges[n - 1].end - ranges[n - 1].start)

\* C23: an object of S > 0 bytes cut with chunk size C > 0 gives exactly
\* ceil(S / C) chunks; chunk i covers [i*C, min(S, (i+1)*C)); every byte
\* offset of [0, S) lies in exactly one chunk and no chunk reaches beyond S;
\* the lengths add up to S, no chunk is empty and only the last one may be
\* shorter than C.
C23_ChunksPartitionObject ==
    call.op = "split" =>
        LET S == call.fileSize
            C == call.chunkSize
            n == call.totalChunks
            r == call.ranges
        IN /\ (n - 1) * C < S /\ S <= n * C
           /\ DOMAIN r = 0 .. (n - 1)
           /\ \A i \in DOMAIN r :
                 /\ r[i].start = i * C
                 /\ r[i].end = (IF (i + 1) * C < S THEN (i + 1) * C ELSE S)
                 /\ r[i].start < r[i].end /\ r[i].end <= S
                 /\ r[i].end - r[i].start <= C
                 /\ i < n - 1 => r[i].end - r[i].start = C
           /\ \A b \in 0 .. (S - 1) :
                 Cardinality({i \in DOMAIN r : r[i].start <= b /\ b < r[i].end}) = 1
           /\ RangeBytes(r, n) = S

\* C23 witness: 7 bytes cut with chunk size 3 gave three chunks, the last one
\* the single byte [6, 7).
C23_Witness ==
    /\ call.op = "split" /\ call.fileSize = 7 /\ call.chunkSize = 3
    /\ call.totalChunks = 3
    /\ call.ranges[2] = [start |-> 6, end |-> 7]

\* The table "Configuración Automática por Tamaño": a row applies to the
\* sizes above `over` and up to `upTo` (0: no upper limit).
PlanRow(over, upTo, chunkSize, concurrency, retries) ==
    [over |-> over, upTo |-> upTo,
     config |-> [chunkSize |-> chunkSize, concurrency |-> concurrency, retries |-> retries]]

PlanTable ==
    {PlanRow(-1, 50 * MB, 5 * MB, 6, 3),
     PlanRow(50 * MB, 500 * MB, 10 * MB, 4, 3),
     PlanRow(500 * MB, 2 * GB, 25 * MB, 3, 4),
     PlanRow(2 * GB, 10 * GB, 50 * MB, 2, 5),
     PlanRow(10 * GB, 0, 100 * MB, 1, 5)}

RowApplies(row, size) == row.over < size /\ (row.upTo = 0 \/ size <= row.upTo)

\* C24: the planner answers every size with the values of the one row of the
\* table the size falls in, a threshold belonging to the row below it; a
\* 120 MB object gets 10 MB chunks, concurrency 4, 3 retries and 12 chunks.
C24_PlanTable ==
    call.op = "plan" =>
        /\ \E row \in PlanTable :
              /\ RowApplies(row, call.fileSize)
              /\ call.config = row.config
              /\ \A other \in PlanTable : RowApplies(other, call.fileSize) => other = row
        /\ call.fileSize = 120 * MB =>
              /\ call.config = [chunkSize |-> 10 * MB, concurrency |-> 4, retries |-> 3]
              /\ call.totalChunks = 12

\* C24 witness: the plan of an object of exactly 10 GB (the last size of the
\* fourth row) was computed: 50 MB chunks, concurrency 2, 5 retries.
C24_Witness ==
    /\ call.op = "plan" /\ call.fileSize = 10 * GB
    /\ call.config = [chunkSize |-> 50 * MB, concurrency |-> 2, retries |-> 5]

\* The bytes a plan keeps in flight: chunk size times concurrency.
InFlightBytes(config) == config.chunkSize * config.concurrency

\* C25 as stated: of two plans, the one of the larger object has the smaller
\* or the same product of chunk size and concurrency.
C25_ProductNonIncreasing ==
    (call.op = "plan" /\ call.before.fileSize <= call.fileSize)
    => InFlightBytes(call.config) <= InFlightBytes(call.before.config)

\* C25 amended: of two plans, the one of the larger object has the larger or
\* the same product of chunk size and concurrency (30, 40, 75, 100 and 100 MB
\* for the five rows of the table).
C25_ProductNonDecreasing ==
    (call.op = "plan" /\ call.before.fileSize <= call.fileSize)
    => /\ InFlightBytes(call.before.config) <= InFlightBytes(call.config)
       /\ InFlightBytes(call.config) \in {30 * MB, 40 * MB, 75 * MB, 100 * MB}

\* C25 witness: the plan of an object just above the 50 MB threshold was
\* computed after the plan of one at the threshold, and its product is larger.
C25_Witness ==
    /\ call.op = "plan"
    /\ call.before.fileSize = 50 * MB /\ call.fileSize = 50 * MB + 1
    /\ InFlightBytes(call.before.config) = 30 * MB
    /\ InFlightBytes(call.config) = 40 * MB

\* C26: every plan has a positive chunk size and a concurrency of 1 to 6, and
\* of two plans the one of the larger object has the smaller or the same
\* concurrency and the larger or the same chunk size.
C26_PlanMonotone ==
    call.op = "plan" =>
        /\ call.config.chunkSize > 0
        /\ call.config.concurrency \in 1 .. 6
        /\ call.before.fileSize <= call.fileSize =>
              /\ call.config.concurrency <= call.before.config.concurrency
              /\ call.config.chunkSize >= call.before.config.chunkSize

\* C26 witness: the plans of the smallest and of the largest object were
\* computed one after the other: concurrency 6 and 1, chunks of 5 and 100 MB.
C26_Witness ==
    /\ call.op = "plan"
    /\ call.before.fileSize = 0 /\ call.fileSize = 20 * GB
    /\ call.before.config.concurrency = 6 /\ call.config.concurrency = 1
    /\ call.before.config.chunkSize = 5 * MB /\ call.config.chunkSize = 100 * MB

\* The indices whose chunk request was answered with success.
Acked(t) == {i \in DOMAIN chunk[t] : chunk[t][i].st = "acked"}

\* The bytes of the indices S when the object is cut with chunk size c.
RECURSIVE SliceBytes(_, _, _)
SliceBytes(size, c, S) ==
    IF S = {} THEN 0
    ELSE LET i == SetMin(S)
         IN (IF (i + 1) * c < size THEN c ELSE size - i * c) + SliceBytes(size, c, S \ {i})

\* C27: a transfer whose init answer recommends a chunk size r uses r as its
\* chunk size: totalChunks is ceil(fileSize / r) and the bytes its
\* acknowledged chunks have added are those of slices cut at multiples of r;
\* its concurrency and retry budget are the planner's for the file size, and
\* they are what bounds its requests.
C27_RecommendedChunkSize ==
    \A t \in Transfers :
        (phase[t] # "idle" /\ job[t].recommended # 0) =>
            LET j == job[t]
                r == j.recommended
                plan == getOptimalConfig(j.fileSize)
            IN /\ j.chunkSize = r
               /\ (j.totalChunks - 1) * r < j.fileSize /\ j.fileSize <= j.totalChunks * r
               /\ DOMAIN chunk[t] = 0 .. (j.totalChunks - 1)
               /\ sentBytes[t] = Cardinality(j.uploadedSet) * r
                                    + SliceBytes(j.fileSize, r, Acked(t))
               /\ j.concurrency = plan.concurrency /\ j.retries = plan.retries
               /\ Cardinality(InFlight(t)) <= plan.concurrency
               /\ \A i \in DOMAIN chunk[t] : chunk[t][i].att <= plan.retries + 1

\* C27 witness: a 5 KiB file (planner: 5 MB chunks) whose init answer
\* recommended 2 KiB is assembling after three chunks, one of them retried.
C27_Witness ==
    \E t \in Transfers :
        /\ phase[t] = "assembling"
        /\ job[t].fileSize = 5 /\ job[t].recommended = 2
        /\ getOptimalConfig(job[t].fileSize).chunkSize = 5 * MB
        /\ job[t].totalChunks = 3 /\ Acked(t) = {0, 1, 2}
        /\ sentBytes[t] = 5
        /\ \E i \in Acked(t) : chunk[t][i].att >= 2

\* C28 as stated: the wait armed by a call of retryChunkUpload with
\* retriesLeft in 1 .. maxRetries is (maxRetries - retriesLeft + 1) base
\* delays, plus the extra delay when the object has more than 100 chunks.
C28_RetryDelayFormula ==
    (call.op = "retry" /\ ~call.thrown) =>
        call.delay = (call.maxRetries - call.retriesLeft + 1) * BASE_RETRY_DELAY
                        + (IF call.totalChunks > 100 THEN LARGE_FILE_EXTRA_DELAY ELSE 0)

\* C29: along the retries of one chunk every wait is longer than the one
\* before it.
C29_DelaysIncrease ==
    [][(call.op = "retry" /\ call'.op = "retry" /\ call'.retry = call.retry + 1
          /\ ~call'.thrown)
       => call'.delay > call.delay]_vars

\* C29 witness: the fifth and last retry of a chunk of an object of more than
\* 100 chunks is armed, with the longest wait of its chain.
C29_Witness ==
    /\ call.op = "retry" /\ ~call.thrown
    /\ call.maxRetries = 5 /\ call.retry = 5 /\ call.retriesLeft = 1
    /\ call.totalChunks = 101
    /\ call.delay = 4 * BASE_RETRY_DELAY + LARGE_FILE_EXTRA_DELAY

\* Transfer t's pipeline ends in this step because its chunk i has used up
\* its retries, and the error reaches the handler of the transfer's file.
ExhaustedStep(t, i) ==
    /\ owner[t] # 0
    /\ phase[t] = "uploading" /\ phase'[t] = "error"
    /\ St(chunk'[t], i) = "failed"

\* C30 as stated: the message that the file shows when chunk i has used up
\* its retries names i, the index the chunk was sent under.
C30_ErrorNamesIndex ==
    [][\A t \in Transfers : \A i \in AllIndices :
          ExhaustedStep(t, i) => files'[owner[t]].error.chunkNum = i]_vars

\* C30 amended: the message names the chunk by its number counted from one,
\* chunkIndex + 1, and it is the message of the file whose chunk it was.
C30_ErrorNamesChunkNumber ==
    [][\A t \in Transfers : \A i \in AllIndices :
          ExhaustedStep(t, i) =>
             /\ files'[owner[t]].error = ExhaustedError(i + 1)
             /\ Status(files'[owner[t]]) = "Error"]_vars

\* C30 witness: the second chunk (index 1) of a file has used up its retries
\* after the first one was acknowledged, and the file shows the message for
\* chunk number 2.
C30_Witness ==
    \E t \in Transfers :
        /\ owner[t] # 0 /\ phase[t] = "error"
        /\ chunk[t][0].st = "acked"
        /\ St(chunk[t], 1) = "failed"
        /\ files[owner[t]].error = ExhaustedError(2)

\* C31: while some file of the list is assembling, canStart(), canPause(),
\* canResume() and canCancel() are all false.
C31_NoControlsWhileAssembling ==
    (\E k \in DOMAIN files : files[k].assembling)
    => (~canStart /\ ~canPause /\ ~canResume /\ ~canCancel)

\* C31 witness: one file is assembling (at 100 percent, not done) while
\* another file of the list has not been started and none is uploading, the
\* state in which the other tests of canStart, canResume and canCancel hold.
C31_Witness ==
    \E k, n \in DOMAIN files :
        /\ k # n
        /\ files[k].assembling /\ files[k].percent = 100 /\ ~files[k].done
        /\ ~files[n].uploading /\ ~files[n].done /\ files[n].percent = 0
        /\ uploadingFiles = 0

\* The transfer pipeline the component started in slot t has neither
\* completed nor failed: its init request, a chunk or complete() is pending.
Running(t) == owner[t] # 0 /\ phase[t] \in {"idle", "uploading", "assembling"}

\* C32: at most one transfer pipeline runs for a file at any time: start()
\* launches no second transfer for a file whose earlier transfer has neither
\* completed nor failed.
C32_OneTransferPerFile ==
    \A t, u \in Transfers :
        (t # u /\ Running(t) /\ Running(u)) => owner[t] # owner[u]

\* C33: of the flags uploading, paused, assembling and done of a file at most
\* one is true, and its error is non-null only when all four are false.
C33_FlagsExclusive ==
    \A k \in DOMAIN files :
        LET f == files[k]
            set == {x \in {"uploading", "paused", "assembling", "done"} :
                      \/ x = "uploading" /\ f.uploading
                      \/ x = "paused" /\ f.paused
                      \/ x = "assembling" /\ f.assembling
                      \/ x = "done" /\ f.done}
        IN  /\ Cardinality(set) <= 1
            /\ f.error # NoError => set = {}

\* C34: a file whose uploading flag is true has a live transfer behind it (a
\* pipeline started for it whose init request, chunks or retries are still
\* pending): resume() leaves no file marked uploading whose transfer
\* completed or failed while the file was paused.
C34_UploadingHasLiveTransfer ==
    \A k \in DOMAIN files :
        files[k].uploading =>
            \E t \in Transfers : owner[t] = k /\ phase[t] \in {"idle", "uploading"}

\* A callback or handler of transfer t runs in this step.
TransferStep(t) == owner[t] # 0 /\ (phase'[t] # phase[t] \/ chunk'[t] # chunk[t])

\* C35: the progress, assembling, error and completion updates of a transfer
\* change only the entry of the file the transfer was started for, also after
\* removeFile has removed another entry of the list (the file's own entry is
\* still in the list).
C35_UpdatesOwnEntry ==
    [][\A t \in Transfers :
          (TransferStep(t) /\ \E k \in DOMAIN files : files[k].file = captured[t].file) =>
              \A n \in DOMAIN files' :
                  (n \notin DOMAIN files \/ files'[n] # files[n])
                  => files'[n].file = captured[t].file]_vars

\* C36: cancel() leaves isPaused$ true and only resume() clears it; a transfer
\* started while the flag is set posts no chunk, and no first request of any
\* chunk is posted while the flag is set: its workers only poll until resume().
C36_CancelLeavesPaused ==
    [][/\ Cancel => isPaused'
       /\ (isPaused /\ ~isPaused') => Resume
       /\ \A t \in Transfers :
             (isPaused /\ phase[t] = "idle" /\ phase'[t] = "uploading")
             => \A i \in DOMAIN chunk'[t] : chunk'[t][i].st \in {"polling", "buffered"}
       /\ \A t \in Transfers : \A i \in AllIndices :
             (Posts(t, i) /\ Att(chunk[t], i) = 0) => ~isPaused]_vars

\* C36 witness: a transfer was live when cancel() was called; another one,
\* started after that cancel(), is polling the flag, which is still set, and
\* has posted no chunk.
C36_Witness ==
    \E t, u \in Transfers :
        /\ cancelled[u] /\ ~cancelled[t]
        /\ isPaused
        /\ phase[t] = "uploading"
        /\ Transmitted(t) = {}
        /\ \E i \in DOMAIN chunk[t] : chunk[t][i].st = "polling"

\* C37: isUploading$ is true whenever some transfer that no cancel() has hit
\* still has chunks pending or in flight or its complete() outstanding, also
\* when another transfer running at the same time has completed or failed.
C37_UploadingWhileAnyLive ==
    (\E t \in Transfers : Live(t) /\ ~cancelled[t]) => isUploading

\* C38: every progress update a transfer publishes has
\* 0 <= sentBytes <= totalBytes, whatever the file size, the chunk size and
\* the set of chunks init reported, the shorter last chunk included.
C38_SentWithinTotal ==
    /\ 0 <= progress.sentBytes
    /\ progress.sentBytes <= progress.totalBytes

\* C39: with no pause() and no cancel() and a server that answers every
\* request, a started transfer terminates: its pipeline completes (Done) or
\* errors (Error).
C39_TransferTerminates ==
    (phase[1] # "idle") ~> (phase[1] \in {"done", "shortcut", "error", "rejected"})

\* C39 witness: a three-chunk transfer wider than its pool has ended in
\* error after one of its chunks used up its retries while another had been
\* acknowledged.
C39_Witness ==
    /\ phase[1] = "error"
    /\ job[1].totalChunks = 3 /\ job[1].concurrency < 3
    /\ \E i, k \in DOMAIN chunk[1] :
          /\ chunk[1][i].st = "failed" /\ chunk[1][i].att = job[1].retries + 1
          /\ chunk[1][k].st = "acked"

====
